---- MODULE Spec2Model ----
(***************************************************************************)
(* Model of fix_word_spaces_gui.py: the space-run collapser, the two tree  *)
(* normalizers (_fix_docx_xml, _fix_odt_xml), the plain-text projection    *)
(* and the archive rewriter (fix_docx / fix_odt / fix_file).               *)
(*                                                                         *)
(* Strings are sequences of one-character tokens.  SP is U+0020, NBSP is   *)
(* U+00A0, TAB is U+0009; every other token is a non-whitespace character. *)
(* Python's None is the value None below (s = None <=> "s is None").       *)
(***************************************************************************)
EXTENDS Integers, Sequences, FiniteSets, TLC

VARIABLES
    tree,       \* the ElementTree: node id -> [tag, c, space, text, tail, kids]
    stack,      \* call stack of fix_element frames / the docx loop position
    groups,     \* groups[0] (odt) / groups (docx)
    chars,      \* chars[0]  (odt) / chars  (docx)
    status,     \* "parsed" | "running" | "returned" | an exception's name | "idle"
    dialect,    \* "odt" | "docx" | "none"
    input,      \* the tree as parsed by ET.fromstring at the start of this call
    pass,       \* 1: first call; 2: call on the bytes the first call returned
    prev,       \* statistics the first call returned (pass 2 only)
    detached,   \* history: each parent.remove call, [node removed, node scheduled]
    flagged,    \* history: the nodes on which wt.set(xml:space) was called
    arg,        \* collapse(s): s and the counters groups[0], chars[0] at the call
    ret,        \* collapse(s): the value returned and the counters after it
    fs,         \* file system: path -> contents (Absent when no such file)
    job         \* the running fix_file call: its locals and position

vars == <<tree, stack, groups, chars, status, dialect, input, pass, prev,
          detached, flagged, arg, ret, fs, job>>

normVars == <<tree, stack, groups, chars, status, dialect, input, pass, prev,
              detached, flagged>>
collVars == <<arg, ret>>
fileVars == <<fs, job>>

----------------------------------------------------------------------------
(* Bounds of the model.                                                    *)

MaxNodes == 3       \* elements of a Dialect-B document (root included)
MaxTextLen == 2     \* length of a text / tail value of a Dialect-B document
MaxLen == 5         \* length of a string handed to collapse on its own

----------------------------------------------------------------------------
(* Characters and strings.                                                 *)

SP == " "
NBSP == "nbsp"
TAB == "tab"
NL == "\n"
None == <<"None">>

Letters == <<"a", "b", "c", "d", "e", "f", "g", "h", "i", "j", "k", "l">>

\* the class with U+00A0 left out
IsSpaceClass_AsciiOnly(ch) == ch = SP

\* the character class [ \u00a0] of EXTRA_SPACE
IsSpaceClass(ch) == ch \in {SP, NBSP}

\* str.isspace(): what str.strip() removes
IsWhitespace(ch) == ch \in {SP, NBSP, TAB, NL}

\* Python truthiness of an optional string: "if not s"
Falsy(s) == s = None \/ s = <<>>

\* (s or "")
OrEmpty(s) == IF Falsy(s) THEN <<>> ELSE s

RECURSIVE StrSet(_, _)
StrSet(alphabet, n) ==
    IF n = 0 THEN {<<>>}
    ELSE LET shorter == StrSet(alphabet, n - 1)
         IN  shorter \cup {Append(s, ch) : s \in {t \in shorter : Len(t) = n - 1}, ch \in alphabet}

----------------------------------------------------------------------------
(* EXTRA_SPACE = re.compile(r"[ \u00a0]{2,}") and EXTRA_SPACE.subn(" ", s). *)

\* length of the greedy match of [ \u00a0]* at position i
RECURSIVE RunLen(_, _)
RunLen(s, i) ==
    IF i <= Len(s) /\ IsSpaceClass(s[i]) THEN 1 + RunLen(s, i + 1) ELSE 0

\* the regex needs at least this many characters to match
MinRun == 2

\* leftmost, non-overlapping, greedy substitution from position i on
RECURSIVE SubnFrom(_, _)
SubnFrom(s, i) ==
    IF i > Len(s) THEN [s |-> <<>>, n |-> 0]
    ELSE LET k == RunLen(s, i)
         IN  IF k >= MinRun
             THEN LET r == SubnFrom(s, i + k)
                  IN  [s |-> <<SP>> \o r.s, n |-> r.n + 1]
             ELSE LET r == SubnFrom(s, i + 1)
                  IN  [s |-> <<s[i]>> \o r.s, n |-> r.n]

EXTRA_SPACE_subn(s) == SubnFrom(s, 1)

\* collapse(s) of _fix_odt_xml, with the counters it closes over passed in
\* and handed back: [s, groups, chars]
collapse(s, g, c) ==
    IF Falsy(s) THEN [s |-> s, groups |-> g, chars |-> c]
    ELSE LET r == EXTRA_SPACE_subn(s)
         IN  IF r.n # 0
             THEN [s |-> r.s, groups |-> g + r.n, chars |-> c + (Len(s) - Len(r.s))]
             ELSE [s |-> r.s, groups |-> g, chars |-> c]

----------------------------------------------------------------------------
(* int(raw_c): Python's int() of a string.                                 *)

DigitChars == <<"0", "1", "2", "3", "4", "5", "6", "7", "8", "9">>

IsDigit(ch) == \E d \in 1..Len(DigitChars) : DigitChars[d] = ch

DigitVal(ch) == (CHOOSE d \in 1..Len(DigitChars) : DigitChars[d] = ch) - 1

RECURSIVE LStrip(_)
LStrip(s) == IF s # <<>> /\ IsWhitespace(Head(s)) THEN LStrip(Tail(s)) ELSE s

RECURSIVE RStrip(_)
RStrip(s) ==
    IF s # <<>> /\ IsWhitespace(s[Len(s)]) THEN RStrip(SubSeq(s, 1, Len(s) - 1)) ELSE s

\* str.strip()
Strip(s) == RStrip(LStrip(s))

RECURSIVE DecVal(_)
DecVal(ds) ==
    IF ds = <<>> THEN 0
    ELSE 10 * DecVal(SubSeq(ds, 1, Len(ds) - 1)) + DigitVal(ds[Len(ds)])

\* [ok |-> TRUE, val |-> n], or [ok |-> FALSE, val |-> 0] where int() raises ValueError
PyInt(s) ==
    LET t == Strip(s)
        signed == t # <<>> /\ Head(t) \in {"-", "+"}
        body == IF signed THEN Tail(t) ELSE t
    IN  IF body = <<>> \/ \E k \in 1..Len(body) : ~IsDigit(body[k])
        THEN [ok |-> FALSE, val |-> 0]
        ELSE [ok |-> TRUE,
              val |-> IF signed /\ Head(t) = "-" THEN 0 - DecVal(body) ELSE DecVal(body)]

----------------------------------------------------------------------------
(* The element tree.  A node is an Element object; its id is its identity. *)

T_S == "text:s"
T_P == "text:p"
T_SPAN == "text:span"
W_T == "w:t"
W_R == "w:r"
W_P == "w:p"

Node(tag, c, space, text, tail, kids) ==
    [tag |-> tag, c |-> c, space |-> space, text |-> text, tail |-> tail, kids |-> kids]

Root == 1

\* list.remove(x): drop the first occurrence of x
RECURSIVE RemoveFirst(_, _)
RemoveFirst(seq, x) ==
    IF seq = <<>> THEN <<>>
    ELSE IF Head(seq) = x THEN Tail(seq)
    ELSE <<Head(seq)>> \o RemoveFirst(Tail(seq), x)

\* the elements reachable from el, in document order (Element.iter())
RECURSIVE Iter(_, _)
RECURSIVE IterKids(_, _, _)
Iter(t, el) == <<el>> \o IterKids(t, t[el].kids, 1)
IterKids(t, ks, k) ==
    IF k > Len(ks) THEN <<>> ELSE Iter(t, ks[k]) \o IterKids(t, ks, k + 1)

SelectTag(t, seq, tag) == SelectSeq(seq, LAMBDA n : t[n].tag = tag)

SeqToSet(seq) == {seq[k] : k \in 1..Len(seq)}

----------------------------------------------------------------------------
(* _fix_odt_xml: the recursive walk fix_element as a machine.  A machine   *)
(* value holds what the call mutates; a frame is one activation of         *)
(* fix_element: its parent, the loop index i, the list to_remove and how   *)
(* many of its entries the reversed() loop has still to visit.             *)

Machine(t, st, g, c, s, d, f) ==
    [tree |-> t, stack |-> st, groups |-> g, chars |-> c, status |-> s,
     detached |-> d, flagged |-> f]

Top(mach) == mach.stack[Len(mach.stack)]

SetTop(mach, frame) == [mach EXCEPT !.stack[Len(mach.stack)] = frame]

\* an exception leaves the call: every frame is unwound
Raise(mach, exc) == [mach EXCEPT !.stack = <<>>, !.status = exc]

Exceptions == {"ValueError", "IndexError", "ParseError"}

AfterScan(i, n) == IF i < n THEN "scan" ELSE "remove"

\* line 131 on entry to fix_element(el): parent.text = collapse(parent.text)
Enter(mach, el) ==
    LET r == collapse(mach.tree[el].text, mach.groups, mach.chars)
        frame == [el |-> el, i |-> 0, pc |-> AfterScan(0, Len(mach.tree[el].kids)),
                  to_remove |-> <<>>, r |-> 0]
    IN  [mach EXCEPT !.tree[el].text = r.s, !.groups = r.groups, !.chars = r.chars,
                     !.stack = Append(@, frame), !.status = "running"]

\* line 135: fix_element(child) for the child at index i
StepRecurse(mach) ==
    LET f == Top(mach)
        child == mach.tree[f.el].kids[f.i + 1]
    IN  Enter(SetTop(mach, [f EXCEPT !.pc = "inspect"]), child)

\* lines 136-146 for the child at index i, once fix_element(child) returned
StepInspect(mach) ==
    LET f == Top(mach)
        t == mach.tree
        child == t[f.el].kids[f.i + 1]
        n == Len(t[f.el].kids)
        next == [f EXCEPT !.i = f.i + 1, !.pc = AfterScan(f.i + 1, n)]
        collapsed == collapse(t[child].tail, mach.groups, mach.chars)
        keep == [SetTop(mach, next) EXCEPT !.tree[child].tail = collapsed.s,
                                           !.groups = collapsed.groups,
                                           !.chars = collapsed.chars]
    IN  IF t[child].tag = T_S
        THEN LET raw_c == t[child].c
                 parsed == IF raw_c # None THEN PyInt(raw_c) ELSE [ok |-> TRUE, val |-> 1]
                 count == parsed.val
             IN  IF ~parsed.ok THEN Raise(mach, "ValueError")
                 ELSE IF count > 1
                 THEN [SetTop(mach, [next EXCEPT
                            !.to_remove = Append(@, [i |-> f.i, tail |-> OrEmpty(t[child].tail),
                                                     node |-> child]),
                            !.r = @ + 1])
                       EXCEPT !.groups = @ + 1, !.chars = @ + (count - 1)]
                 ELSE keep
        ELSE keep

\* line 149 run forwards: "for i, tail in to_remove"
NextRemoval_Forward(f) == f.to_remove[Len(f.to_remove) - f.r + 1]

\* line 149: the entry "for i, tail in reversed(to_remove)" yields next, r
\* entries being left to visit
NextRemoval(f) == f.to_remove[f.r]

\* lines 154 / 157 without the outer collapse
Splice_NoCollapse(base, space_plus_tail, g, c) ==
    [s |-> OrEmpty(base) \o space_plus_tail, groups |-> g, chars |-> c]

\* lines 154 / 157: collapse((x or "") + space_plus_tail)
Splice(base, space_plus_tail, g, c) == collapse(OrEmpty(base) \o space_plus_tail, g, c)

\* lines 149-158: one iteration of the loop over reversed(to_remove)
StepRemove(mach) ==
    LET f == Top(mach)
        t == mach.tree
        e == NextRemoval(f)
        i == e.i
        kids == t[f.el].kids
        spt == collapse(<<SP>> \o e.tail, mach.groups, mach.chars)
        next == [f EXCEPT !.r = f.r - 1]
    IN  IF i + 1 > Len(kids) THEN Raise(mach, "IndexError")      \* parent[i]
        ELSE LET victim == kids[i + 1]
             IN  IF i = 0
                 THEN LET m == Splice(t[f.el].text, spt.s, spt.groups, spt.chars)
                      IN  [SetTop(mach, next) EXCEPT
                              !.tree[f.el].text = m.s,
                              !.tree[f.el].kids = RemoveFirst(kids, victim),
                              !.groups = m.groups, !.chars = m.chars,
                              !.detached = Append(@, [node |-> victim, scheduled |-> e.node])]
                 ELSE LET p == kids[i]
                          m == Splice(t[p].tail, spt.s, spt.groups, spt.chars)
                      IN  [SetTop(mach, next) EXCEPT
                              !.tree[p].tail = m.s,
                              !.tree[f.el].kids = RemoveFirst(kids, victim),
                              !.groups = m.groups, !.chars = m.chars,
                              !.detached = Append(@, [node |-> victim, scheduled |-> e.node])]

\* fix_element returns; the outermost return reaches line 161
StepReturn(mach) ==
    LET st == SubSeq(mach.stack, 1, Len(mach.stack) - 1)
    IN  [mach EXCEPT !.stack = st,
                     !.status = IF st = <<>> THEN "returned" ELSE "running"]

----------------------------------------------------------------------------
(* _plain_odt: the text stream of the paragraphs, markers expanded.        *)

RECURSIVE Spaces(_)
Spaces(n) == IF n <= 0 THEN <<>> ELSE <<SP>> \o Spaces(n - 1)

\* _collect(el) and the loop "for ch in el: _collect(ch)"; [ok, s], ok = FALSE
\* where int() raises
RECURSIVE Collect(_, _)
RECURSIVE CollectKids(_, _, _)
Collect(t, el) ==
    IF t[el].tag = T_S
    THEN LET parsed == PyInt(IF t[el].c = None THEN <<"1">> ELSE t[el].c)
         IN  [ok |-> parsed.ok, s |-> Spaces(parsed.val) \o OrEmpty(t[el].tail)]
    ELSE LET inner == CollectKids(t, t[el].kids, 1)
         IN  [ok |-> inner.ok, s |-> OrEmpty(t[el].text) \o inner.s \o OrEmpty(t[el].tail)]
CollectKids(t, ks, k) ==
    IF k > Len(ks) THEN [ok |-> TRUE, s |-> <<>>]
    ELSE LET a == Collect(t, ks[k])
             b == CollectKids(t, ks, k + 1)
         IN  [ok |-> a.ok /\ b.ok, s |-> a.s \o b.s]

\* one line of _plain_odt: para.text, then the collected children
PlainPara(t, para) ==
    LET inner == CollectKids(t, t[para].kids, 1)
    IN  [ok |-> inner.ok, s |-> OrEmpty(t[para].text) \o inner.s]

RECURSIVE JoinLines(_, _, _)
JoinLines(t, paras, k) ==
    IF k > Len(paras) THEN [ok |-> TRUE, s |-> <<>>]
    ELSE LET a == PlainPara(t, paras[k])
             b == JoinLines(t, paras, k + 1)
         IN  [ok |-> a.ok /\ b.ok,
              s |-> a.s \o (IF k < Len(paras) THEN <<NL>> ELSE <<>>) \o b.s]

_plain_odt(t) == JoinLines(t, SelectTag(t, Iter(t, Root), T_P), 1)

----------------------------------------------------------------------------
(* ET.tostring and ET.fromstring.  Bytes are a sequence of tokens: a start *)
(* tag with its attributes, a character, an end tag.                       *)

StartTok(n) == [k |-> "start", tag |-> n.tag, c |-> n.c, space |-> n.space, ch |-> ""]
EndTok(n) == [k |-> "end", tag |-> n.tag, c |-> None, space |-> None, ch |-> ""]
CharTok(ch) == [k |-> "char", tag |-> "", c |-> None, space |-> None, ch |-> ch]

CharToks(s) == [k \in 1..Len(OrEmpty(s)) |-> CharTok(OrEmpty(s)[k])]

\* ElementTree._serialize_xml: start tag, text, each child followed by its
\* tail, end tag
RECURSIVE Serialize(_, _)
RECURSIVE SerializeKids(_, _, _)
Serialize(t, el) ==
    <<StartTok(t[el])>> \o CharToks(t[el].text) \o SerializeKids(t, t[el].kids, 1)
        \o <<EndTok(t[el])>>
SerializeKids(t, ks, k) ==
    IF k > Len(ks) THEN <<>>
    ELSE Serialize(t, ks[k]) \o CharToks(t[ks[k]].tail) \o SerializeKids(t, ks, k + 1)

tostring(t) == Serialize(t, Root)

\* XMLParser feeding TreeBuilder: st = [tree, open, last, ok, closed].
\* Character data goes to the text of the open element until one of its
\* children has ended, then to that child's tail.
ParseStart == [tree |-> <<>>, open |-> <<>>, last |-> 0, ok |-> TRUE, closed |-> FALSE]

Feed(st, tok) ==
    IF ~st.ok THEN st
    ELSE IF tok.k = "start"
    THEN IF st.closed THEN [st EXCEPT !.ok = FALSE]
         ELSE LET id == Len(st.tree) + 1
                  made == Append(st.tree, Node(tok.tag, tok.c, tok.space, None, None, <<>>))
                  linked == IF st.open = <<>> THEN made
                            ELSE [made EXCEPT ![st.open[Len(st.open)]].kids = Append(@, id)]
              IN  [st EXCEPT !.tree = linked, !.open = Append(@, id), !.last = 0]
    ELSE IF tok.k = "end"
    THEN IF st.open = <<>> \/ st.tree[st.open[Len(st.open)]].tag # tok.tag
         THEN [st EXCEPT !.ok = FALSE]
         ELSE [st EXCEPT !.last = st.open[Len(st.open)],
                         !.open = SubSeq(@, 1, Len(@) - 1),
                         !.closed = Len(st.open) = 1]
    ELSE IF st.open = <<>> THEN [st EXCEPT !.ok = FALSE]
    ELSE IF st.last = 0
    THEN [st EXCEPT !.tree[st.open[Len(st.open)]].text = OrEmpty(@) \o <<tok.ch>>]
    ELSE [st EXCEPT !.tree[st.last].tail = OrEmpty(@) \o <<tok.ch>>]

RECURSIVE FeedAll(_, _, _)
FeedAll(st, toks, k) ==
    IF k > Len(toks) THEN st ELSE FeedAll(Feed(st, toks[k]), toks, k + 1)

\* ET.fromstring: [ok, tree]; ok = FALSE where it raises ParseError
fromstring(toks) ==
    LET st == FeedAll(ParseStart, toks, 1)
    IN  [ok |-> st.ok /\ st.closed, tree |-> st.tree]

----------------------------------------------------------------------------
(* The Dialect-B documents the model starts from: a text:p root with up to *)
(* MaxNodes - 1 further elements, each a text:span or a text:s marker      *)
(* (childless and textless, as the format defines it).  Every text and     *)
(* tail slot has a letter of its own, so that a lost, duplicated or moved  *)
(* character shows.                                                        *)

TextLetter(k) == Letters[2 * k - 1]
TailLetter(k) == Letters[2 * k]

\* what ET.fromstring can leave in a text or tail: None or a non-empty string
Texts(alphabet, n) == {None} \cup (StrSet(alphabet, n) \ {<<>>})

\* the string with its letters replaced by the letter of its slot
Relabel(s, letter) ==
    IF s = None THEN None
    ELSE [k \in 1..Len(s) |-> IF IsWhitespace(s[k]) THEN s[k] ELSE letter]

RelabelNode(nd, k) ==
    [nd EXCEPT !.text = Relabel(@, TextLetter(k)), !.tail = Relabel(@, TailLetter(k))]

\* absent, "1", counts above 1, and a value int() rejects
CountAttrs == {None, <<"1">>, <<"2">>, <<"5">>, <<"x">>}

OdtTexts == Texts({SP, "a"}, MaxTextLen)

OdtKids ==
    {Node(T_SPAN, None, None, tx, tl, <<>>) : tx \in OdtTexts, tl \in OdtTexts}
    \cup {Node(T_S, c, None, None, tl, <<>>) : c \in CountAttrs, tl \in OdtTexts}

RECURSIVE IsAncestor(_, _, _)
IsAncestor(par, a, k) ==
    k > 1 /\ (par[k] = a \/ IsAncestor(par, a, par[k]))

\* parent maps that number the elements in document order
Shapes(n) ==
    {par \in [2..n -> 1..n] :
        \A k \in 2..n : /\ par[k] < k
                        /\ (k > 2 => (par[k] = k - 1 \/ IsAncestor(par, par[k], k - 1)))}

RECURSIVE SortedSeq(_)
SortedSeq(S) ==
    IF S = {} THEN <<>>
    ELSE LET m == CHOOSE x \in S : \A y \in S : x <= y
         IN  <<m>> \o SortedSeq(S \ {m})

KidsOf(par, n, k) == SortedSeq({j \in 2..n : par[j] = k})

BuildDoc(n, rootNode, ns, par) ==
    [k \in 1..n |->
        IF k = 1 THEN [RelabelNode(rootNode, 1) EXCEPT !.kids = KidsOf(par, n, 1)]
        ELSE [RelabelNode(ns[k], k) EXCEPT !.kids = KidsOf(par, n, k)]]

\* markers are childless
ShapeFits(n, ns, par) == \A k \in 2..n : (par[k] # 1) => (ns[par[k]].tag # T_S)

----------------------------------------------------------------------------
(* The state machine of one call of _fix_odt_xml.                          *)

Mach == Machine(tree, stack, groups, chars, status, detached, flagged)

SetMach(m) ==
    /\ tree' = m.tree
    /\ stack' = m.stack
    /\ groups' = m.groups
    /\ chars' = m.chars
    /\ status' = m.status
    /\ detached' = m.detached
    /\ flagged' = m.flagged

\* lines 120-121: root = ET.fromstring(xml_bytes); groups = [0]; chars = [0]
Parsed(d, t, p, pv) ==
    /\ dialect = d
    /\ tree = t
    /\ input = t
    /\ stack = <<>>
    /\ groups = 0
    /\ chars = 0
    /\ status = "parsed"
    /\ pass = p
    /\ prev = pv
    /\ detached = <<>>
    /\ flagged = {}

NoStats == [groups |-> 0, chars |-> 0]

NoCall == [s |-> None, groups |-> 0, chars |-> 0, done |-> FALSE]

InitColl == arg = NoCall /\ ret = NoCall
NoJob == [pc |-> "none"]

InitFile == fs = <<>> /\ job = NoJob

\* no normalizer call is in progress
InitIdle ==
    /\ tree = <<>> /\ input = <<>> /\ stack = <<>>
    /\ groups = 0 /\ chars = 0
    /\ status = "idle" /\ dialect = "none"
    /\ pass = 1 /\ prev = NoStats
    /\ detached = <<>> /\ flagged = {}

InitOdt ==
    /\ \E n \in 1..MaxNodes : \E par \in Shapes(n) :
       \E ns \in [2..n -> OdtKids] : \E rt \in OdtTexts :
          /\ ShapeFits(n, ns, par)
          /\ Parsed("odt",
                    fromstring(tostring(BuildDoc(n, Node(T_P, None, None, rt, None, <<>>), ns, par))).tree,
                    1, NoStats)
    /\ InitColl
    /\ InitFile

InOdt == dialect = "odt" /\ status = "running"

\* line 160: fix_element(root)
OdtCallRoot ==
    /\ dialect = "odt" /\ status = "parsed"
    /\ SetMach(Enter(Mach, Root))
    /\ UNCHANGED <<dialect, input, pass, prev, collVars, fileVars>>

\* line 135: recurse into the next child
OdtRecurse ==
    /\ InOdt /\ Top(Mach).pc = "scan"
    /\ SetMach(StepRecurse(Mach))
    /\ UNCHANGED <<dialect, input, pass, prev, collVars, fileVars>>

\* lines 136-146: inspect the child just walked
OdtInspect ==
    /\ InOdt /\ Top(Mach).pc = "inspect"
    /\ SetMach(StepInspect(Mach))
    /\ UNCHANGED <<dialect, input, pass, prev, collVars, fileVars>>

\* lines 149-158: apply one scheduled removal
OdtRemove ==
    /\ InOdt /\ Top(Mach).pc = "remove" /\ Top(Mach).r > 0
    /\ SetMach(StepRemove(Mach))
    /\ UNCHANGED <<dialect, input, pass, prev, collVars, fileVars>>

\* fix_element returns to its caller
OdtReturn ==
    /\ InOdt /\ Top(Mach).pc = "remove" /\ Top(Mach).r = 0
    /\ SetMach(StepReturn(Mach))
    /\ UNCHANGED <<dialect, input, pass, prev, collVars, fileVars>>

\* the normalizer is called again on the bytes it returned (line 161, then
\* lines 120-121 of the second call)
Rerun ==
    /\ status = "returned" /\ pass = 1
    /\ LET t == fromstring(tostring(tree)).tree
       IN  /\ tree' = t
           /\ input' = t
    /\ stack' = <<>>
    /\ groups' = 0
    /\ chars' = 0
    /\ status' = "parsed"
    /\ pass' = 2
    /\ prev' = [groups |-> groups, chars |-> chars]
    /\ detached' = <<>>
    /\ flagged' = {}
    /\ UNCHANGED <<dialect, collVars, fileVars>>

----------------------------------------------------------------------------
(* _fix_docx_xml: the loops "for wt in root.iter(W_T)" and "for attr in    *)
(* ("text", "tail")" as a machine; its one frame holds the w:t reached     *)
(* (el), its position in the iteration (i) and the attribute (pc).         *)

PRESERVE == <<"p", "r", "e", "s", "e", "r", "v", "e">>

WtList(t) == SelectTag(t, Iter(t, Root), W_T)

DocxFrame(t, i, attr) ==
    [el |-> WtList(t)[i], i |-> i, pc |-> attr, to_remove |-> <<>>, r |-> 0]

\* line 72: the iteration starts; with no w:t the loop body never runs
DocxEnter(mach) ==
    IF WtList(mach.tree) = <<>> THEN [mach EXCEPT !.status = "returned"]
    ELSE [mach EXCEPT !.stack = <<DocxFrame(mach.tree, 1, "text")>>, !.status = "running"]

\* line 80 without the test of attr
NeedsPreserve_AnyAttr(attr, fixed) == fixed # Strip(fixed)

\* line 80: attr == "text" and fixed != fixed.strip()
NeedsPreserve(attr, fixed) == attr = "text" /\ fixed # Strip(fixed)

\* the loops advance: "tail" after "text", then the next w:t, then line 82
DocxAdvance(mach) ==
    LET f == Top(mach)
    IN  IF f.pc = "text" THEN SetTop(mach, [f EXCEPT !.pc = "tail"])
        ELSE IF f.i < Len(WtList(mach.tree))
        THEN SetTop(mach, DocxFrame(mach.tree, f.i + 1, "text"))
        ELSE [mach EXCEPT !.stack = <<>>, !.status = "returned"]

\* lines 74-81 for the attribute the frame is at
StepDocx(mach) ==
    LET f == Top(mach)
        wt == f.el
        val == IF f.pc = "text" THEN mach.tree[wt].text ELSE mach.tree[wt].tail
    IN  IF Falsy(val) THEN DocxAdvance(mach)
        ELSE LET r == EXTRA_SPACE_subn(val)
                 fixed == r.s
             IN  IF r.n = 0 THEN DocxAdvance(mach)
                 ELSE LET counted == [mach EXCEPT !.groups = @ + r.n,
                                                  !.chars = @ + (Len(val) - Len(fixed))]
                          stored == IF f.pc = "text"
                                    THEN [counted EXCEPT !.tree[wt].text = fixed]
                                    ELSE [counted EXCEPT !.tree[wt].tail = fixed]
                      IN  IF NeedsPreserve(f.pc, fixed)
                          THEN DocxAdvance([stored EXCEPT !.tree[wt].space = PRESERVE,
                                                          !.flagged = @ \cup {wt}])
                          ELSE DocxAdvance(stored)

----------------------------------------------------------------------------
(* The Dialect-A documents the model starts from: up to MaxDocxNodes       *)
(* elements, each a w:t or another element (w:r), with any text, tail and  *)
(* xml:space attribute.                                                    *)

MaxDocxNodes == 2
MaxDocxTextLen == 2

DocxTexts == Texts({SP, NBSP, "a"}, MaxDocxTextLen)

DocxNodes ==
    {Node(tag, None, sp, tx, tl, <<>>) :
        tag \in {W_T, W_R}, sp \in {None, PRESERVE}, tx \in DocxTexts, tl \in DocxTexts}

InitDocx ==
    /\ \E n \in 1..MaxDocxNodes : \E par \in Shapes(n) :
       \E ns \in [2..n -> DocxNodes] : \E rootNode \in DocxNodes :
          /\ rootNode.tail = None
          /\ Parsed("docx", fromstring(tostring(BuildDoc(n, rootNode, ns, par))).tree,
                    1, NoStats)
    /\ InitColl
    /\ InitFile

\* line 72: root.iter(W_T) starts
DocxStart ==
    /\ dialect = "docx" /\ status = "parsed"
    /\ SetMach(DocxEnter(Mach))
    /\ UNCHANGED <<dialect, input, pass, prev, collVars, fileVars>>

\* lines 74-81 with attr = "text"
DocxFixText ==
    /\ dialect = "docx" /\ status = "running" /\ Top(Mach).pc = "text"
    /\ SetMach(StepDocx(Mach))
    /\ UNCHANGED <<dialect, input, pass, prev, collVars, fileVars>>

\* lines 74-81 with attr = "tail"
DocxFixTail ==
    /\ dialect = "docx" /\ status = "running" /\ Top(Mach).pc = "tail"
    /\ SetMach(StepDocx(Mach))
    /\ UNCHANGED <<dialect, input, pass, prev, collVars, fileVars>>

NextOdt == OdtCallRoot \/ OdtRecurse \/ OdtInspect \/ OdtRemove \/ OdtReturn

NextDocx == DocxStart \/ DocxFixText \/ DocxFixTail

Init == InitOdt \/ InitDocx

Next == NextOdt \/ NextDocx \/ Rerun

Spec == Init /\ [][Next]_vars

----------------------------------------------------------------------------
(* collapse on its own: one call on any string of up to MaxLen characters  *)
(* of {SP, NBSP, "a"}, on None and on "", from any counter values.         *)

InitCollapse ==
    /\ \E x \in {None} \cup StrSet({SP, NBSP, "a"}, MaxLen) : \E g \in {0, 1} :
          arg = [s |-> x, groups |-> g, chars |-> 3 * g, done |-> FALSE]
    /\ ret = NoCall
    /\ InitIdle
    /\ InitFile

\* lines 123-128: the call returns
CollapseCall ==
    /\ ~ret.done
    /\ LET r == collapse(arg.s, arg.groups, arg.chars)
       IN  ret' = [s |-> r.s, groups |-> r.groups, chars |-> r.chars, done |-> TRUE]
    /\ UNCHANGED <<arg, normVars, fileVars>>

SpecCollapse == InitCollapse /\ [][CollapseCall]_vars

----------------------------------------------------------------------------
(* The normalizers and projections as the archive rewriter calls them:     *)
(* from bytes to bytes, run to completion.                                 *)

\* the statement fix_element is at, executed
OdtStep(mach) ==
    LET f == Top(mach)
    IN  IF f.pc = "scan" THEN StepRecurse(mach)
        ELSE IF f.pc = "inspect" THEN StepInspect(mach)
        ELSE IF f.r > 0 THEN StepRemove(mach)
        ELSE StepReturn(mach)

RECURSIVE RunOdt(_)
RunOdt(mach) == IF mach.status # "running" THEN mach ELSE RunOdt(OdtStep(mach))

RECURSIVE RunDocx(_)
RunDocx(mach) == IF mach.status # "running" THEN mach ELSE RunDocx(StepDocx(mach))

Fresh(t) == Machine(t, <<>>, 0, 0, "parsed", <<>>, {})

Failed(exc) == [exc |-> exc, data |-> <<>>, groups |-> 0, chars |-> 0]

Outcome(m) ==
    IF m.status = "returned"
    THEN [exc |-> "", data |-> tostring(m.tree), groups |-> m.groups, chars |-> m.chars]
    ELSE Failed(m.status)

\* lines 119-161
_fix_odt_xml(xml_bytes) ==
    LET p == fromstring(xml_bytes)
    IN  IF ~p.ok THEN Failed("ParseError") ELSE Outcome(RunOdt(Enter(Fresh(p.tree), Root)))

\* lines 69-82
_fix_docx_xml(xml_bytes) ==
    LET p == fromstring(xml_bytes)
    IN  IF ~p.ok THEN Failed("ParseError") ELSE Outcome(RunDocx(DocxEnter(Fresh(p.tree))))

\* lines 84-89: per w:p, the texts of its w:t joined; lines joined by "\n"
RECURSIVE JoinTexts(_, _, _)
JoinTexts(t, wts, k) ==
    IF k > Len(wts) THEN <<>> ELSE OrEmpty(t[wts[k]].text) \o JoinTexts(t, wts, k + 1)

RECURSIVE JoinDocxLines(_, _, _)
JoinDocxLines(t, paras, k) ==
    IF k > Len(paras) THEN <<>>
    ELSE JoinTexts(t, SelectTag(t, Iter(t, paras[k]), W_T), 1)
            \o (IF k < Len(paras) THEN <<NL>> ELSE <<>>)
            \o JoinDocxLines(t, paras, k + 1)

\* [exc, s]: the projection of the bytes, or the exception raised
PlainDocxBytes(xml_bytes) ==
    LET p == fromstring(xml_bytes)
    IN  IF ~p.ok THEN [exc |-> "ParseError", s |-> <<>>]
        ELSE [exc |-> "", s |-> JoinDocxLines(p.tree, SelectTag(p.tree, Iter(p.tree, Root), W_P), 1)]

PlainOdtBytes(xml_bytes) ==
    LET p == fromstring(xml_bytes)
    IN  IF ~p.ok THEN [exc |-> "ParseError", s |-> <<>>]
        ELSE IF ~_plain_odt(p.tree).ok THEN [exc |-> "ValueError", s |-> <<>>]
        ELSE [exc |-> "", s |-> _plain_odt(p.tree).s]

----------------------------------------------------------------------------
(* fix_file / fix_docx / fix_odt.  The file system maps the three paths    *)
(* the call touches to their contents; an archive is its list of entries   *)
(* [name, data, readable], readable = FALSE where ZipFile.read fails.      *)

MaxEntries == 3

IN_PATH == "in"
OUT_PATH == "out"
TMP_PATH == "tmp"

Absent == [kind |-> "absent", entries |-> <<>>, complete |-> FALSE]
PlainFile == [kind |-> "bytes", entries |-> <<>>, complete |-> FALSE]
Zip(entries, complete) == [kind |-> "zip", entries |-> entries, complete |-> complete]

Entry(name, data, readable) == [name |-> name, data |-> data, readable |-> readable]

DOCX_MAIN == "word/document.xml"
ODT_MAIN == "content.xml"

MainEntry(ext) == IF ext = ".docx" THEN DOCX_MAIN ELSE ODT_MAIN

\* ZipFile.read(name): the data of the last entry of that name
ReadByName(entries, name) ==
    LET hits == {k \in 1..Len(entries) : entries[k].name = name}
    IN  IF hits = {} THEN [exc |-> "KeyError", data |-> <<>>]
        ELSE LET k == CHOOSE x \in hits : \A y \in hits : y <= x
             IN  IF entries[k].readable THEN [exc |-> "", data |-> entries[k].data]
                 ELSE [exc |-> "BadZipFile", data |-> <<>>]

\* lines 107: the handler without the unlink
Cleanup_Skip(files) == files

\* line 107: if os.path.exists(tmp): os.unlink(tmp)
Cleanup(files) ==
    IF files[TMP_PATH].kind # "absent" THEN [files EXCEPT ![TMP_PATH] = Absent] ELSE files

\* an exception inside the try block: control goes to the handler
Fail(j, exc) == [j EXCEPT !.pc = "except", !.exc = exc, !.failedAt = j.pc]

\* lines 200-204: fix_file dispatches on the extension
FixFile ==
    /\ job.pc = "call"
    /\ job' = IF job.ext \in {".docx", ".odt"} THEN [job EXCEPT !.pc = "mkstemp"]
              ELSE [job EXCEPT !.pc = "raised", !.exc = "ValueError", !.failedAt = "call"]
    /\ UNCHANGED <<fs, normVars, collVars>>

\* lines 92 / 182: tempfile.mkstemp, before the try block
Mkstemp ==
    /\ job.pc = "mkstemp"
    /\ \/ /\ fs' = [fs EXCEPT ![TMP_PATH] = PlainFile]
          /\ job' = [job EXCEPT !.pc = "open"]
       \/ /\ job' = [job EXCEPT !.pc = "raised", !.exc = "OSError", !.failedAt = "mkstemp"]
          /\ UNCHANGED fs
    /\ UNCHANGED <<normVars, collVars>>

\* lines 95 / 185: zipfile.ZipFile(inp, "r")
OpenInput ==
    /\ job.pc = "open"
    /\ job' = IF fs[IN_PATH].kind = "zip" /\ fs[IN_PATH].complete
              THEN [job EXCEPT !.pc = "before"]
              ELSE Fail(job, IF fs[IN_PATH].kind = "absent" THEN "FileNotFoundError"
                             ELSE "BadZipFile")
    /\ UNCHANGED <<fs, normVars, collVars>>

\* lines 96 / 186: before = _plain_xxx(zin.read(main entry))
PlainBefore ==
    /\ job.pc = "before"
    /\ LET got == ReadByName(fs[IN_PATH].entries, MainEntry(job.ext))
           plain == IF job.ext = ".docx" THEN PlainDocxBytes(got.data)
                    ELSE PlainOdtBytes(got.data)
       IN  job' = IF got.exc # "" THEN Fail(job, got.exc)
                  ELSE IF plain.exc # "" THEN Fail(job, plain.exc)
                  ELSE [job EXCEPT !.pc = "create", !.before = plain.s]
    /\ UNCHANGED <<fs, normVars, collVars>>

\* lines 97 / 187: zipfile.ZipFile(tmp, "w")
CreateOutput ==
    /\ job.pc = "create"
    /\ fs' = [fs EXCEPT ![TMP_PATH] = Zip(<<>>, FALSE)]
    /\ job' = [job EXCEPT !.pc = "copy", !.idx = 1]
    /\ UNCHANGED <<normVars, collVars>>

\* lines 98-103 / 188-193: one iteration of the loop over zin.infolist()
CopyEntry ==
    /\ job.pc = "copy"
    /\ job.idx <= Len(fs[IN_PATH].entries)
    /\ LET item == fs[IN_PATH].entries[job.idx]
           got == ReadByName(fs[IN_PATH].entries, item.name)
           isMain == item.name = MainEntry(job.ext)
           fixed == IF job.ext = ".docx" THEN _fix_docx_xml(got.data)
                    ELSE _fix_odt_xml(got.data)
           data == IF isMain THEN fixed.data ELSE got.data
           plain == IF job.ext = ".docx" THEN PlainDocxBytes(data) ELSE PlainOdtBytes(data)
       IN  IF got.exc # "" THEN job' = Fail(job, got.exc) /\ UNCHANGED fs
           ELSE IF isMain /\ fixed.exc # "" THEN job' = Fail(job, fixed.exc) /\ UNCHANGED fs
           ELSE IF isMain /\ plain.exc # "" THEN job' = Fail(job, plain.exc) /\ UNCHANGED fs
           ELSE \/ /\ fs' = [fs EXCEPT ![TMP_PATH].entries =
                                           Append(@, Entry(item.name, data, TRUE))]
                   /\ job' = [job EXCEPT !.idx = @ + 1,
                                         !.tg = IF isMain THEN @ + fixed.groups ELSE @,
                                         !.tc = IF isMain THEN @ + fixed.chars ELSE @,
                                         !.after = IF isMain THEN plain.s ELSE @]
                \/ /\ job' = Fail(job, "OSError")       \* zout.writestr fails
                   /\ UNCHANGED fs
    /\ UNCHANGED <<normVars, collVars>>

\* the two with blocks are left: zout is closed, then zin
CloseArchives ==
    /\ job.pc = "copy"
    /\ job.idx > Len(fs[IN_PATH].entries)
    /\ fs' = [fs EXCEPT ![TMP_PATH].complete = TRUE]
    /\ job' = [job EXCEPT !.pc = "move"]
    /\ UNCHANGED <<normVars, collVars>>

\* lines 104-105 / 194-195: shutil.move(tmp, out), then return; a move that
\* fails may have written part of out
Move ==
    /\ job.pc = "move"
    /\ \/ /\ fs' = [fs EXCEPT ![job.out] = fs[TMP_PATH], ![TMP_PATH] = Absent]
          /\ job' = [job EXCEPT !.pc = "returned"]
       \/ /\ \E partial \in {fs[job.out], PlainFile} : fs' = [fs EXCEPT ![job.out] = partial]
          /\ job' = Fail(job, "OSError")
    /\ UNCHANGED <<normVars, collVars>>

\* lines 106-108 / 196-198: except Exception: unlink tmp; raise
Handler ==
    /\ job.pc = "except"
    /\ fs' = Cleanup(fs)
    /\ job' = [job EXCEPT !.pc = "raised"]
    /\ UNCHANGED <<normVars, collVars>>

NextFile ==
    \/ FixFile \/ Mkstemp \/ OpenInput \/ PlainBefore \/ CreateOutput
    \/ CopyEntry \/ CloseArchives \/ Move \/ Handler

\* the payloads an entry can hold: bytes that are no XML (two of them), a
\* Dialect-A document with a run to collapse, a Dialect-B document with a
\* marker of count 5 before three spaces, and one whose repeat count is no
\* integer
BlobX == <<CharTok("x")>>
BlobY == <<CharTok("y")>>

DocxSample ==
    tostring(<<Node(W_P, None, None, None, None, <<2>>),
               Node(W_T, None, None, <<"a", SP, SP, "b">>, None, <<>>)>>)

OdtSample ==
    tostring(<<Node(T_P, None, None, <<"a">>, None, <<2>>),
               Node(T_S, <<"5">>, None, None, <<SP, SP, SP, "b">>, <<>>)>>)

OdtBadCount ==
    tostring(<<Node(T_P, None, None, <<"a">>, None, <<2>>),
               Node(T_S, <<"x">>, None, None, <<"b">>, <<>>)>>)

EntryNames == {DOCX_MAIN, ODT_MAIN, "styles.xml"}

FileData(name) ==
    IF name = DOCX_MAIN THEN {DocxSample, BlobX}
    ELSE IF name = ODT_MAIN THEN {OdtSample, OdtBadCount, BlobX}
    ELSE {BlobX, BlobY}

\* every name with each of its payloads, and with a payload that cannot be read
Entries ==
    UNION {{Entry(n, d, TRUE) : d \in FileData(n)} : n \in EntryNames}
    \cup {Entry(n, BlobX, FALSE) : n \in EntryNames}

InputFiles == {Zip(es, TRUE) : es \in StrSet(Entries, MaxEntries)} \cup {PlainFile, Absent}

InitFixFile ==
    /\ \E inFile \in InputFiles : \E outFile \in {Absent, PlainFile} :
          fs = [p \in {IN_PATH, OUT_PATH, TMP_PATH} |->
                   IF p = IN_PATH THEN inFile ELSE IF p = OUT_PATH THEN outFile ELSE Absent]
    /\ \E ext \in {".docx", ".odt", ".txt"} : \E out \in {OUT_PATH, IN_PATH} :
          job = [pc |-> "call", ext |-> ext, out |-> out, idx |-> 0, tg |-> 0, tc |-> 0,
                 before |-> <<>>, after |-> <<>>, exc |-> "", failedAt |-> "", fs0 |-> fs]
    /\ InitIdle
    /\ InitColl

SpecFile == InitFixFile /\ [][NextFile]_vars

----------------------------------------------------------------------------
(* Vocabulary of the properties, stated from positions in the strings      *)
(* rather than by the scan the code performs.                              *)

Raised == status \in Exceptions

NonWs(s) == SelectSeq(s, LAMBDA ch : ~IsWhitespace(ch))

\* the maximal runs <<first, last>> of two or more characters of {SP, NBSP}
SpaceRuns(s) ==
    {r \in (1..Len(s)) \X (1..Len(s)) :
        /\ r[1] < r[2]
        /\ \A k \in r[1]..r[2] : s[k] \in {SP, NBSP}
        /\ (r[1] = 1 \/ s[r[1] - 1] \notin {SP, NBSP})
        /\ (r[2] = Len(s) \/ s[r[2] + 1] \notin {SP, NBSP})}

LiteralRuns(s) == IF s = None THEN {} ELSE SpaceRuns(s)

RECURSIVE ExtraChars(_)
ExtraChars(runs) ==
    IF runs = {} THEN 0
    ELSE LET r == CHOOSE x \in runs : TRUE
         IN  (r[2] - r[1]) + ExtraChars(runs \ {r})

\* the positions of s that survive: all but the second and later characters
\* of a run
Survivors(s) ==
    {k \in 1..Len(s) : \A r \in SpaceRuns(s) : ~(r[1] < k /\ k <= r[2])}

\* s with every run replaced by one SP
RunsCollapsed(s) ==
    LET keep == SortedSeq(Survivors(s))
    IN  [k \in 1..Len(keep) |->
            IF \E r \in SpaceRuns(s) : r[1] = keep[k] THEN SP ELSE s[keep[k]]]

\* a marker the walk schedules for removal: text:s with text:c > 1
IsBigMarker(t, n) ==
    /\ t[n].tag = T_S
    /\ t[n].c # None
    /\ PyInt(t[n].c).ok
    /\ PyInt(t[n].c).val > 1

MarkerCount(t, n) == IF t[n].c = None THEN 1 ELSE PyInt(t[n].c).val

IsMalformedMarker(t, n) == t[n].tag = T_S /\ t[n].c # None /\ ~PyInt(t[n].c).ok

Attached(t) == SeqToSet(Iter(t, Root))

----------------------------------------------------------------------------
(* C1: content preservation.  When _fix_odt_xml returns, the non-whitespace*)
(* characters of the text stream (_plain_odt) are the same, in the same    *)
(* order, as before the call.                                              *)
ContentPreserved ==
    (dialect = "odt" /\ status = "returned") =>
        /\ _plain_odt(input).ok
        /\ _plain_odt(tree).ok
        /\ NonWs(_plain_odt(tree).s) = NonWs(_plain_odt(input).s)

(* C2: a marker whose repeat count is not an integer literal is treated as *)
(* count 1: the call never raises, and when it returns the marker is still *)
(* attached, its tail collapsed.                                           *)
MalformedCountIsOne ==
    dialect = "odt" =>
        /\ ~Raised
        /\ status = "returned" =>
              \A n \in Attached(input) :
                  IsMalformedMarker(input, n) =>
                      /\ n \in Attached(tree)
                      /\ tree[n].tail = (IF input[n].tail = None THEN None
                                         ELSE RunsCollapsed(input[n].tail))

(* C3: statistics accuracy.  When _fix_odt_xml returns, characters removed *)
(* = sum of N-1 over the markers with count N > 1 plus L-1 over the        *)
(* literal runs of length L >= 2 of the input's texts and tails, and runs  *)
(* = the number of those markers plus the number of those runs.            *)
RECURSIVE ExpectedStats(_, _, _)
ExpectedStats(t, nodes, k) ==
    IF k > Len(nodes) THEN NoStats
    ELSE LET n == nodes[k]
             rest == ExpectedStats(t, nodes, k + 1)
             runs == LiteralRuns(t[n].text) \cup
                     {<<r[1] + 100, r[2] + 100>> : r \in LiteralRuns(t[n].tail)}
             big == IsBigMarker(t, n)
         IN  [groups |-> rest.groups + Cardinality(runs) + (IF big THEN 1 ELSE 0),
              chars |-> rest.chars + ExtraChars(runs)
                            + (IF big THEN MarkerCount(t, n) - 1 ELSE 0)]

StatsAccurate ==
    (dialect = "odt" /\ status = "returned") =>
        LET e == ExpectedStats(input, Iter(input, Root), 1)
        IN  groups = e.groups /\ chars = e.chars

(* C5: marker-element semantics.  When _fix_odt_xml returns, every marker  *)
(* with count > 1 is detached, and one space followed by its tail stands   *)
(* at its place in the text stream: at the end of the parent's text when   *)
(* no element precedes it, else at the end of the tail of the element      *)
(* before it.                                                              *)
RECURSIVE SplicedRun(_, _, _)
SplicedRun(t, ks, k) ==
    IF k <= Len(ks) /\ IsBigMarker(t, ks[k])
    THEN <<SP>> \o OrEmpty(t[ks[k]].tail) \o SplicedRun(t, ks, k + 1)
    ELSE <<>>

ExpectedSlot(base, spliced) ==
    IF spliced = <<>> THEN (IF base = None THEN None ELSE RunsCollapsed(base))
    ELSE RunsCollapsed(OrEmpty(base) \o spliced)

MarkerSpliced ==
    (dialect = "odt" /\ status = "returned") =>
        \A p \in Attached(tree) :
            LET ks == input[p].kids
            IN  /\ tree[p].kids = SelectSeq(ks, LAMBDA n : ~IsBigMarker(input, n))
                /\ tree[p].text = ExpectedSlot(input[p].text, SplicedRun(input, ks, 1))
                /\ \A j \in 1..Len(ks) :
                       ~IsBigMarker(input, ks[j]) =>
                           tree[ks[j]].tail =
                               ExpectedSlot(input[ks[j]].tail, SplicedRun(input, ks, j + 1))

(* C10: removal ordering.  Each parent.remove detaches exactly the marker   *)
(* that the scan recorded for the entry being applied, no index is ever    *)
(* out of range, and the entry the loop applies next still points at the   *)
(* marker recorded for it.                                                 *)
RemovalIndexValid ==
    dialect = "odt" =>
        /\ status # "IndexError"
        /\ \A k \in 1..Len(detached) :
               /\ detached[k].node = detached[k].scheduled
               /\ IsBigMarker(input, detached[k].node)
        /\ \A d \in 1..Len(stack) :
               (stack[d].pc = "remove" /\ stack[d].r > 0) =>
                   LET e == stack[d].to_remove[stack[d].r]
                       kids == tree[stack[d].el].kids
                   IN  e.i + 1 <= Len(kids) /\ kids[e.i + 1] = e.node

\* two removals were scheduled under one parent and both have been applied
RemovalWitness ==
    /\ dialect = "odt" /\ status = "returned" /\ pass = 1
    /\ Len(detached) = 2
    /\ Len(input[Root].kids) = 2

(* C4: idempotence.  A normalizer run on the bytes a previous run of it    *)
(* returned does not raise, reports 0 runs and 0 characters, and leaves    *)
(* every text, tail, attribute and the element structure as parsed.        *)
Idempotent ==
    pass = 2 =>
        /\ ~Raised
        /\ groups = 0
        /\ chars = 0
        /\ status = "returned" => tree = input

\* the second run returned, and the first one had something to collapse
IdempotentWitness ==
    /\ pass = 2 /\ status = "returned"
    /\ prev.groups >= 2
    /\ dialect = "odt"

\* the same for Dialect A
IdempotentWitnessDocx ==
    /\ pass = 2 /\ status = "returned"
    /\ prev.groups >= 2
    /\ dialect = "docx"

(* C8: the preserve flag of Dialect A.  xml:space is set on a node exactly *)
(* when the node is a w:t whose own text was changed and the new text has  *)
(* leading or trailing whitespace; no other attribute value changes and    *)
(* no element is added, removed or moved.                                  *)
HasEdgeWhitespace(s) ==
    /\ s # None
    /\ s # <<>>
    /\ (IsWhitespace(s[1]) \/ IsWhitespace(s[Len(s)]))

CollapseCorrect ==
    ret.done =>
        IF arg.s = None \/ arg.s = <<>>
        THEN ret.s = arg.s /\ ret.groups = arg.groups /\ ret.chars = arg.chars
        ELSE /\ ret.s = RunsCollapsed(arg.s)
             /\ ret.groups = arg.groups + Cardinality(SpaceRuns(arg.s))
             /\ ret.chars = arg.chars + ExtraChars(SpaceRuns(arg.s))

\* a call on a string with a mixed SP/NBSP run and a single NBSP, which is kept
CollapseWitness ==
    /\ ret.done
    /\ arg.s # None
    /\ \E r \in SpaceRuns(arg.s) : {arg.s[k] : k \in r[1]..r[2]} = {SP, NBSP}
    /\ \E k \in 1..Len(ret.s) : ret.s[k] = NBSP
    /\ ret.groups = arg.groups + 1

(* C6: atomic output.  The output path changes only by the final move, made *)
(* once every entry has been written to the temporary archive; after any   *)
(* failure before the move every path holds what it held at the call: the  *)
(* output unwritten, the input unmodified, no temporary file.              *)
AtomicOutput ==
    job.pc # "none" =>
        /\ fs[job.out] # job.fs0[job.out] =>
               (job.pc = "returned" \/ job.failedAt = "move")
        /\ (job.out # IN_PATH) => fs[IN_PATH] = job.fs0[IN_PATH]
        /\ job.pc = "returned" =>
               /\ fs[job.out].kind = "zip" /\ fs[job.out].complete
               /\ Len(fs[job.out].entries) = Len(job.fs0[IN_PATH].entries)
               /\ fs[TMP_PATH] = Absent
        /\ job.pc = "raised" => job.exc # ""
        /\ (job.pc = "raised" /\ job.failedAt # "move") => fs = job.fs0

\* a failure in the copy loop after an entry was written to the temporary
\* archive, with an output file already in place
AtomicOutputWitness ==
    /\ job.pc = "raised"
    /\ job.failedAt = "copy"
    /\ job.idx >= 2
    /\ job.out = OUT_PATH
    /\ job.fs0[OUT_PATH] # Absent
    /\ fs[TMP_PATH] = Absent

(* C9: byte-for-byte passthrough.  When fix_file returns, the output       *)
(* archive has as many entries as the input archive, and every entry not   *)
(* named as the normalized XML entry has, at the same position, the name   *)
(* and the data of the input entry.                                        *)
Passthrough ==
    job.pc = "returned" =>
        LET inE == job.fs0[IN_PATH].entries
            outE == fs[job.out].entries
        IN  /\ Len(outE) = Len(inE)
            /\ \A k \in 1..Len(inE) :
                   inE[k].name # MainEntry(job.ext) =>
                       /\ outE[k].name = inE[k].name
                       /\ outE[k].data = inE[k].data

====
